---------------------------- MODULE Spec2Model ----------------------------
(***************************************************************************)
(* Model of the Infinite Craft proxy server (src/proxy-server.js).         *)
(*                                                                         *)
(* Strings are sequences of UTF-16 code units (naturals), so that          *)
(* toLowerCase, length and decodeURIComponent are computed the way the     *)
(* JavaScript runtime computes them.  Request bodies carry JSON values,    *)
(* modelled as records [t, s, n]: the type tag, the string value and the   *)
(* numeric value.                                                          *)
(***************************************************************************)
EXTENDS Integers, Sequences, FiniteSets, TLC

VARIABLES
    discoveryTracker,   \* the Map of line 14: lowercased item name -> count
    rateStore,          \* the two limiters' stores: tier -> client -> window entry
    now,                \* wall-clock time in milliseconds
    apiKey,             \* process.env.OPENAI_API_KEY: TRUE when configured
    last,               \* the last request served and the response it got
    admitted,           \* history: per client, the craft requests handed to the
                        \* handler since the client's strict window started
    pending,            \* the track requests in flight: slot -> the request and
                        \* where its handler stands
    returned,           \* history: per key, the counts the successful track
                        \* requests returned, in the order they completed
    refused             \* history: tier -> client -> whether a limiter of the
                        \* tier ever rejected a request of the client

vars ==
    <<discoveryTracker, rateStore, now, apiKey, last, admitted, pending, returned,
      refused>>

-----------------------------------------------------------------------------
(* Bounds of the model *)

MaxHits == 12          \* craft requests one client sends in one window
MaxCraftHits == 2      \* the same, where the handler's answers are explored
MaxDiscoveryHits == 3  \* track/lookup requests one client sends in one window
MaxGeneralHits == 102  \* the same, where whole windows of the general limiter are explored
MaxTracks == 2         \* successful track calls in one run
MaxInFlight == 3       \* track requests in flight at one time
TickMs == 30000        \* how far one clock step moves the time
MaxTime == 90000       \* the clock stops here
MaxLongTicks == 3      \* clock steps of half a general window in one run

Clients == {"c1", "c2"}
Slots == 1..MaxInFlight

-----------------------------------------------------------------------------
(* Strings: sequences of code units *)

Printable ==
    <<" ", "!", "dquote", "#", "$", "%", "&", "'", "lparen", ")", "*", "+", ",", "-",
      ".", "/", "0", "1", "2", "3", "4", "5", "6", "7", "8", "9", ":", ";",
      "<", "=", ">", "?", "@", "A", "B", "C", "D", "E", "F", "G", "H", "I",
      "J", "K", "L", "M", "N", "O", "P", "Q", "R", "S", "T", "U", "V", "W",
      "X", "Y", "Z", "[", "backslash", "]", "^", "_", "backtick", "a", "b", "c", "d", "e",
      "f", "g", "h", "i", "j", "k", "l", "m", "n", "o", "p", "q", "r", "s",
      "t", "u", "v", "w", "x", "y", "z", "{", "|", "}", "~">>

\* The code unit of a printable ASCII character.
Code(ch) == 31 + (CHOOSE i \in 1..Len(Printable) : Printable[i] = ch)

\* A string literal, written as the sequence of its characters.
Str(chars) == [i \in 1..Len(chars) |-> Code(chars[i])]

\* n copies of the character ch.
Rep(ch, n) == [i \in 1..n |-> Code(ch)]

\* String.prototype.toLowerCase on one code unit (ASCII range: A-Z -> a-z).
ToLowerCaseUnit(u) == IF u >= 65 /\ u <= 90 THEN u + 32 ELSE u

\* String.prototype.toLowerCase
ToLowerCase(s) == [i \in 1..Len(s) |-> ToLowerCaseUnit(s[i])]

\* WhiteSpace and LineTerminator code units, which String.prototype.trim strips.
IsWhiteSpace(u) ==
    \/ u \in {9, 10, 11, 12, 13, 32, 160, 5760, 8232, 8233, 8239, 8287, 12288, 65279}
    \/ u >= 8192 /\ u <= 8202

\* String.prototype.trim
Trim(s) ==
    LET kept == {i \in 1..Len(s) : ~IsWhiteSpace(s[i])}
    IN  IF kept = {} THEN <<>>
        ELSE SubSeq(s, CHOOSE i \in kept : \A j \in kept : i <= j,
                       CHOOSE i \in kept : \A j \in kept : i >= j)

IsHexDigit(u) ==
    \/ u >= 48 /\ u <= 57
    \/ u >= 65 /\ u <= 70
    \/ u >= 97 /\ u <= 102

HexValue(u) ==
    IF u <= 57 THEN u - 48
    ELSE IF u <= 70 THEN u - 55
    ELSE u - 87

\* Whether s holds an escape %XX at position k.
IsEscapeAt(s, k) ==
    /\ k + 2 <= Len(s)
    /\ s[k] = 37
    /\ IsHexDigit(s[k + 1])
    /\ IsHexDigit(s[k + 2])

EscapeByte(s, k) == 16 * HexValue(s[k + 1]) + HexValue(s[k + 2])

\* The number of octets of the UTF-8 sequence that lead byte b starts
\* (0: b cannot start a sequence).
Utf8Length(b) ==
    IF b < 128 THEN 1
    ELSE IF b >= 194 /\ b <= 223 THEN 2
    ELSE IF b >= 224 /\ b <= 239 THEN 3
    ELSE IF b >= 240 /\ b <= 244 THEN 4
    ELSE 0

\* Whether the n-1 escapes after the lead escape at k are continuation bytes.
ContinuationsOk(s, k, n) ==
    \A j \in 1..(n - 1) :
        /\ IsEscapeAt(s, k + 3 * j)
        /\ EscapeByte(s, k + 3 * j) >= 128
        /\ EscapeByte(s, k + 3 * j) <= 191

\* The code point of the n-octet UTF-8 sequence escaped at k.
CodePointAt(s, k, n) ==
    LET b == EscapeByte(s, k)
        c(j) == EscapeByte(s, k + 3 * j) - 128
    IN  IF n = 1 THEN b
        ELSE IF n = 2 THEN (b - 192) * 64 + c(1)
        ELSE IF n = 3 THEN (b - 224) * 4096 + c(1) * 64 + c(2)
        ELSE (b - 240) * 262144 + c(1) * 4096 + c(2) * 64 + c(3)

\* Whether cp is a code point an n-octet sequence may encode
\* (not overlong, not a surrogate, not beyond U+10FFFF).
ValidCodePoint(cp, n) ==
    /\ n = 3 => cp >= 2048 /\ ~(cp >= 55296 /\ cp <= 57343)
    /\ n = 4 => cp >= 65536 /\ cp <= 1114111

\* The UTF-16 code units of a code point.
CodeUnits(cp) ==
    IF cp < 65536 THEN <<cp>>
    ELSE <<55296 + ((cp - 65536) \div 1024), 56320 + ((cp - 65536) % 1024)>>

\* The position of the first % of s at or after k (Len(s) + 1: none).
NextEscape(s, k) ==
    IF \E p \in k..Len(s) : s[p] = 37
    THEN CHOOSE p \in k..Len(s) : s[p] = 37 /\ \A q \in k..(p - 1) : s[q] # 37
    ELSE Len(s) + 1

\* decodeURIComponent from position k on: the code units up to the next
\* escape are copied, the escape is decoded.  [ok |-> FALSE] stands for the
\* URIError it throws on a malformed escape.
RECURSIVE DecodeFrom(_, _)
DecodeFrom(s, k) ==
    LET p == NextEscape(s, k)
        copied == SubSeq(s, k, p - 1)
    IN  IF p > Len(s) THEN [ok |-> TRUE, val |-> copied]
        ELSE IF ~IsEscapeAt(s, p) THEN [ok |-> FALSE, val |-> <<>>]
        ELSE
            LET n == Utf8Length(EscapeByte(s, p))
            IN  IF n = 0 \/ ~ContinuationsOk(s, p, n)
                      \/ ~ValidCodePoint(CodePointAt(s, p, n), n)
                THEN [ok |-> FALSE, val |-> <<>>]
                ELSE LET rest == DecodeFrom(s, p + 3 * n)
                     IN  [ok |-> rest.ok,
                          val |-> copied \o CodeUnits(CodePointAt(s, p, n)) \o rest.val]

DecodeURIComponent(s) == DecodeFrom(s, 1)

-----------------------------------------------------------------------------
(* JSON values of a request body *)

Undefined == [t |-> "undefined", s |-> <<>>, n |-> 0]
Number(k) == [t |-> "number", s |-> <<>>, n |-> k]
String(chars) == [t |-> "string", s |-> chars, n |-> 0]

\* typeof v
TypeOf(v) ==
    IF v.t \in {"null", "array"} THEN "object" ELSE v.t

\* ToBoolean(v): what !v negates
Truthy(v) ==
    CASE v.t = "undefined" -> FALSE
      [] v.t = "null" -> FALSE
      [] v.t = "number" -> v.n # 0
      [] v.t = "string" -> Len(v.s) > 0
      [] OTHER -> TRUE

\* v.length, for a string or an array
LengthOf(v) == IF v.t = "string" THEN Len(v.s) ELSE v.n

-----------------------------------------------------------------------------
(* Responses *)

NoReply ==
    [net |-> "none", status |-> 0, json |-> FALSE, detail |-> "",
     choices |-> FALSE, fence |-> "none", doc |-> "none",
     name |-> Undefined, emoji |-> Undefined]

\* res.status(status).json(body): what the client sees.  count is the count
\* field of a discovery answer; name and emoji are those of a craft result.
Response(status, error, count, name, emoji) ==
    [status |-> status, error |-> error, count |-> count,
     name |-> name, emoji |-> emoji]

ErrorResponse(status, message) == Response(status, message, 0, Undefined, Undefined)
CountResponse(count) == Response(200, "", count, Undefined, Undefined)

\* One served request: the route, the client, the request's inputs, the
\* upstream reply the handler got (NoReply when it made no outbound call)
\* and the response.
Exchange(route, client, arg1, arg2, fetched, upstream, res) ==
    [route |-> route, client |-> client, arg1 |-> arg1, arg2 |-> arg2,
     fetched |-> fetched, upstream |-> upstream, res |-> res]

-----------------------------------------------------------------------------
(* Rate limiter (express-rate-limit): a fixed window per client and tier *)

GeneralWindowMs == 15 * 60 * 1000
GeneralMax == 100
GeneralMessage == "Too many requests, please try again later."

StrictWindowMs == 1 * 60 * 1000
MutStrictMax == 10 + 1
StrictMax == 10
StrictMessage == "Crafting too fast! Please wait a moment."

Tiers == {"general", "strict"}

MutWindowMsShared(tier) == GeneralWindowMs
WindowMs(tier) == IF tier = "general" THEN GeneralWindowMs ELSE StrictWindowMs
Max(tier) == IF tier = "general" THEN GeneralMax ELSE StrictMax
Message(tier) == IF tier = "general" THEN GeneralMessage ELSE StrictMessage

\* The limiter each route is registered with: craftLimiter for the two
\* discovery routes, strictCraftLimiter for the craft route, none for GET /.
MutRouteLimiterStrict(route) == IF route = "health" THEN "none" ELSE "strict"
MutRouteLimiterShared(route) == IF route = "health" THEN "none" ELSE "general"
RouteLimiter(route) ==
    IF route \in {"track", "peek"} THEN "general"
    ELSE IF route = "craft" THEN "strict"
    ELSE "none"

\* The entry of a client no request of which was counted yet.
NoWindow == [active |-> FALSE, start |-> 0, count |-> 0]

\* One call of the limiter for the entry e at time t: a window that has run
\* its length is restarted at t with a count of 0; then the call is counted.
Hit(e, tier, t) ==
    IF ~e.active \/ t - e.start >= WindowMs(tier)
    THEN [active |-> TRUE, start |-> t, count |-> 1]
    ELSE [e EXCEPT !.count = e.count + 1]

\* Whether the call that left the entry e is passed on to the handler.
Admits(e, tier) == e.count <= Max(tier)

\* The history of rejections after the call of client c that left the
\* entry e.
Refusals(history, e, tier, c) ==
    IF Admits(e, tier) THEN history ELSE [history EXCEPT ![tier][c] = TRUE]

\* The limiter's own answer to a call it does not pass on.
Rejection(tier) == ErrorResponse(429, Message(tier))

-----------------------------------------------------------------------------
(* Discovery counter *)

EmptyMap == [k \in {} |-> 0]

\* discoveryTracker.get(key) || 0
GetOrZero(map, key) == IF key \in DOMAIN map THEN map[key] ELSE 0

\* discoveryTracker.set(key, value)
MapSet(map, key, value) ==
    [k \in (DOMAIN map) \cup {key} |-> IF k = key THEN value ELSE map[k]]

TotalTracked(map) ==
    LET RECURSIVE Sum(_)
        Sum(ks) == IF ks = {} THEN 0
                   ELSE LET k == CHOOSE x \in ks : TRUE
                        IN  map[k] + Sum(ks \ {k})
    IN  Sum(DOMAIN map)

\* The key of a tracked item: item.toLowerCase()
MutTrackKeyAsGiven(s) == s
MutTrackKeyTrimmed(s) == ToLowerCase(Trim(s))
TrackKey(s) == ToLowerCase(s)

\* Whether the track handler gives up control between reading the count
\* and writing it back: there is no await in its try block.
MutTrackYields == TRUE
TrackYields == FALSE

\* The second validation of the track handler.
MutTrackInvalid(item) == TypeOf(item) # "string"
TrackInvalid(item) == TypeOf(item) # "string" \/ LengthOf(item) > 100

\* The handler of POST /api/track-discovery: the response and the map after.
TrackHandler(map, item) ==
    IF ~Truthy(item)
    THEN [res |-> ErrorResponse(400, "item is required"), map |-> map]
    ELSE IF TrackInvalid(item)
    THEN [res |-> ErrorResponse(400, "Invalid item name"), map |-> map]
    ELSE LET itemKey == TrackKey(item.s)
             currentCount == GetOrZero(map, itemKey)
         IN  [res |-> CountResponse(currentCount + 1),
              map |-> MapSet(map, itemKey, currentCount + 1)]

\* The handler of GET /api/discovery-count/:item, for the route parameter
\* item (a string): the response and the map after.
MutPeekHandlerStores(map, item) ==
    LET decoded == DecodeURIComponent(item)
        itemKey == ToLowerCase(decoded.val)
    IN  IF ~decoded.ok
        THEN [res |-> ErrorResponse(500, "URI malformed"), map |-> map]
        ELSE IF Len(itemKey) > 100
        THEN [res |-> ErrorResponse(400, "Invalid item name"), map |-> map]
        ELSE [res |-> CountResponse(GetOrZero(map, itemKey)),
              map |-> MapSet(map, itemKey, GetOrZero(map, itemKey))]
PeekHandler(map, item) ==
    LET decoded == DecodeURIComponent(item)
        itemKey == ToLowerCase(decoded.val)
    IN  IF ~decoded.ok
        THEN [res |-> ErrorResponse(500, "URI malformed"), map |-> map]
        ELSE IF Len(itemKey) > 100
        THEN [res |-> ErrorResponse(400, "Invalid item name"), map |-> map]
        ELSE [res |-> CountResponse(GetOrZero(map, itemKey)), map |-> map]

-----------------------------------------------------------------------------
(* Combination requester *)

\* response.ok
ResponseOk(reply) == reply.status >= 200 /\ reply.status <= 299

\* The Unicode properties the emoji pattern tests, for the code points the
\* model's replies hold: Emoji_Presentation (dashing away, fire, high
\* voltage, man, woman, girl) and Emoji (those, cloud, red heart, the
\* digits, # and *).
IsEmojiPresentation(cp) == cp \in {128168, 128293, 9889, 128104, 128105, 128103}
IsEmoji(cp) == IsEmojiPresentation(cp) \/ cp \in {9729, 10084, 35, 42} \/ (cp >= 48 /\ cp <= 57)

\* Whether /(\p{Emoji_Presentation}|\p{Emoji}️)/u matches at position i
\* of the code points s.
EmojiAt(s, i) ==
    \/ IsEmojiPresentation(s[i])
    \/ IsEmoji(s[i]) /\ i + 1 <= Len(s) /\ s[i + 1] = 65039

\* result.emoji after "Ensure only one emoji": the first match of the
\* pattern, or the string as it is when nothing matches.
FirstEmoji(s) ==
    LET hits == {i \in 1..Len(s) : EmojiAt(s, i)}
        first == CHOOSE i \in hits : \A j \in hits : i <= j
    IN  IF hits = {} THEN s
        ELSE IF IsEmojiPresentation(s[first]) THEN <<s[first]>>
        ELSE <<s[first], s[first + 1]>>

\* Whether the value v is a string that holds three backticks in a row.
HasTicks(v) ==
    /\ v.t = "string"
    /\ \E i \in 1..(Len(v.s) - 2) : v.s[i] = 96 /\ v.s[i + 1] = 96 /\ v.s[i + 2] = 96

\* What JSON.parse is given: the text of the first fenced block when the
\* content holds a closed fence, the content itself otherwise.  An unclosed
\* fence leaves the backticks in the text, which is then no JSON.  The
\* capture of a closed fence is lazy: it ends at the first three backticks
\* after the opening ones, those inside a string of the document included,
\* and what it holds then is no JSON.
ExtractedDoc(reply) ==
    IF reply.fence = "unclosed" THEN "garbage"
    ELSE IF reply.fence \in {"plain", "json"}
            /\ (HasTicks(reply.name) \/ HasTicks(reply.emoji))
    THEN "garbage"
    ELSE reply.doc

\* The status and the message sent for a non-success upstream response.
MutUpstreamErrorStatus(reply) == 500
UpstreamErrorStatus(reply) == reply.status
MutUpstreamErrorMessage(reply) == reply.detail
UpstreamErrorMessage(reply) == "AI service error"

\* The check of the parsed result: !result.name || !result.emoji
MutIncompleteResult(reply) == FALSE
IncompleteResult(reply) == ~Truthy(reply.name) \/ ~Truthy(reply.emoji)

\* The catch block of the craft handler.
CraftFailure == ErrorResponse(500, "Failed to create combination")

\* The try block of the craft handler, given the upstream's reply.
Combine(reply) ==
    IF reply.net = "fail" THEN CraftFailure
    ELSE IF ~ResponseOk(reply)
    THEN IF ~reply.json THEN CraftFailure
         ELSE ErrorResponse(UpstreamErrorStatus(reply), UpstreamErrorMessage(reply))
    ELSE IF ~reply.json \/ ~reply.choices THEN CraftFailure
    ELSE IF ExtractedDoc(reply) # "object" THEN CraftFailure
    ELSE IF IncompleteResult(reply) THEN CraftFailure
    ELSE IF TypeOf(reply.emoji) # "string" THEN CraftFailure
    ELSE Response(200, "", 0, reply.name, String(FirstEmoji(reply.emoji.s)))

\* The validation of the craft handler: the message of the 400 it answers,
\* "" when the items pass.
CraftInvalid(item1, item2) ==
    IF ~Truthy(item1) \/ ~Truthy(item2) THEN "item1 and item2 are required"
    ELSE IF TypeOf(item1) # "string" \/ TypeOf(item2) # "string"
    THEN "Items must be strings"
    ELSE IF LengthOf(item1) > 100 \/ LengthOf(item2) > 100 THEN "Item names too long"
    ELSE ""

\* The handler of POST /api/craft: the response, and whether it called the
\* upstream service.
MutCraftHandlerKeyFirst(item1, item2, key, reply) ==
    IF ~key
    THEN [res |-> ErrorResponse(500, "Server configuration error"), fetched |-> FALSE]
    ELSE IF CraftInvalid(item1, item2) # ""
    THEN [res |-> ErrorResponse(400, CraftInvalid(item1, item2)), fetched |-> FALSE]
    ELSE [res |-> Combine(reply), fetched |-> TRUE]
CraftHandler(item1, item2, key, reply) ==
    IF CraftInvalid(item1, item2) # ""
    THEN [res |-> ErrorResponse(400, CraftInvalid(item1, item2)), fetched |-> FALSE]
    ELSE IF ~key
    THEN [res |-> ErrorResponse(500, "Server configuration error"), fetched |-> FALSE]
    ELSE [res |-> Combine(reply), fetched |-> TRUE]

-----------------------------------------------------------------------------
(* Inputs *)

Water == Str(<<"W", "a", "t", "e", "r">>)
WaterLower == Str(<<"w", "a", "t", "e", "r">>)
WaterUpper == Str(<<"W", "A", "T", "E", "R">>)
WaterPadded == Str(<<" ", "w", "a", "t", "e", "r">>)
Blank == Str(<<" ", " ">>)
Escaped == Str(<<"%", "4", "1">>)
Percent == Str(<<"%">>)

\* The item values of track requests.
TrackItems ==
    {Undefined, Number(5), String(<<>>), String(Water), String(WaterLower),
     String(WaterPadded), String(Blank), String(Escaped),
     String(Rep("a", 100)), String(Rep("a", 101))}

\* The route parameters of lookup requests, as the router hands them on.
PeekItems ==
    {WaterUpper, WaterLower, WaterPadded, Escaped, Percent,
     Rep("A", 100), Rep("a", 101)}

\* The item values of craft requests.
CraftItems ==
    {Undefined, Number(5), String(<<>>), String(Water), String(Rep("a", 100)),
     String(Rep("a", 101))}

Steam == String(Str(<<"S", "t", "e", "a", "m">>))

\* A name with three backticks in it.
Ticked == String(<<97, 96, 96, 96, 98>>)

\* Emoji fields: cloud with its variation selector and then fire; the family
\* man, woman, girl, one emoji of five code points joined by U+200D.
CloudFire == String(<<9729, 65039, 128293>>)
Family == String(<<128104, 8205, 128105, 8205, 128103>>)

\* The upstream's replies.  net: whether fetch resolved; status; json: whether
\* the body parses; detail: the payload of an error body; choices: whether
\* data.choices[0].message.content is a string; fence, doc, name, emoji: the
\* content's fence ("none", "plain" for an untagged one, "json", "unclosed"),
\* the kind of text in it, and the parsed object's fields.
Reply(net, status, json, detail, choices, fence, doc, name, emoji) ==
    [net |-> net, status |-> status, json |-> json, detail |-> detail,
     choices |-> choices, fence |-> fence, doc |-> doc, name |-> name,
     emoji |-> emoji]

ErrorReply(status, detail) ==
    Reply("ok", status, TRUE, detail, FALSE, "none", "none", Undefined, Undefined)

ContentReply(fence, doc, name, emoji) ==
    Reply("ok", 200, TRUE, "", TRUE, fence, doc, name, emoji)

UpstreamReplies ==
    {Reply("fail", 0, FALSE, "", FALSE, "none", "none", Undefined, Undefined),
     Reply("ok", 502, FALSE, "", FALSE, "none", "none", Undefined, Undefined),
     Reply("ok", 200, FALSE, "", FALSE, "none", "none", Undefined, Undefined),
     Reply("ok", 200, TRUE, "", FALSE, "none", "none", Undefined, Undefined)}
    \cup {ErrorReply(s, d) : s \in {401, 429, 500}, d \in {"detail 1", "detail 2"}}
    \cup {ContentReply("none", "object", Steam, String(<<128168>>)),
          ContentReply("json", "object", Steam, String(<<128168, 128293>>)),
          ContentReply("plain", "object", Steam, CloudFire),
          ContentReply("json", "object", Steam, Family),
          ContentReply("json", "object", Ticked, String(<<128168>>)),
          ContentReply("unclosed", "object", Steam, String(<<128168>>)),
          ContentReply("none", "garbage", Undefined, Undefined),
          ContentReply("none", "null", Undefined, Undefined),
          ContentReply("none", "object", Steam, Undefined),
          ContentReply("none", "object", Steam, String(<<>>)),
          ContentReply("none", "object", String(<<>>), String(<<128168>>)),
          ContentReply("none", "object", Steam, String(<<120>>)),
          ContentReply("none", "object", Steam, Number(5))}

\* The items and replies of the runs that explore whole limiter windows.
LimiterItems == {String(Water), String(Rep("a", 101))}
LimiterReplies ==
    {ErrorReply(429, "detail 1"),
     ContentReply("none", "object", Steam, String(<<128168>>))}

-----------------------------------------------------------------------------
(* State machine *)

\* A free slot of the requests in flight.
NoRequest == [pc |-> "idle", client |-> "c1", item |-> Undefined, read |-> 0]

\* The history of returned counts after a track request got the response res.
Completed(history, item, res) ==
    IF res.status # 200 THEN history
    ELSE LET key == TrackKey(item.s)
         IN  MapSet(history, key,
                    IF key \in DOMAIN history THEN Append(history[key], res.count)
                    ELSE <<res.count>>)

Init ==
    /\ discoveryTracker = EmptyMap
    /\ rateStore = [tier \in Tiers |-> [c \in Clients |-> NoWindow]]
    /\ now = 0
    /\ apiKey \in BOOLEAN
    /\ last = Exchange("none", "c1", Undefined, Undefined, FALSE, NoReply,
                       ErrorResponse(0, ""))
    /\ admitted = [c \in Clients |-> 0]
    /\ pending = [i \in Slots |-> NoRequest]
    /\ returned = EmptyMap
    /\ refused = [tier \in Tiers |-> [c \in Clients |-> FALSE]]

\* GET /: no limiter, a static answer.
Health(c) ==
    /\ last' = Exchange("health", c, Undefined, Undefined, FALSE, NoReply,
                        Response(200, "", 0, Undefined, Undefined))
    /\ last' # last
    /\ UNCHANGED <<discoveryTracker, rateStore, now, apiKey, admitted, pending, returned,
                   refused>>

\* POST /api/track-discovery with body {item}: craftLimiter, then the handler.
\* The two in one step: a request with no other request in flight.
Track(c, item) ==
    LET tier == RouteLimiter("track")
        e == Hit(rateStore[tier][c], tier, now)
        out == TrackHandler(discoveryTracker, item)
    IN  /\ rateStore[tier][c].count < MaxGeneralHits
        /\ TotalTracked(discoveryTracker) < MaxTracks
        /\ rateStore' = [rateStore EXCEPT ![tier][c] = e]
        /\ IF Admits(e, tier)
           THEN /\ discoveryTracker' = out.map
                /\ returned' = Completed(returned, item, out.res)
                /\ last' = Exchange("track", c, item, Undefined, FALSE, NoReply, out.res)
           ELSE /\ discoveryTracker' = discoveryTracker
                /\ returned' = returned
                /\ last' = Exchange("track", c, item, Undefined, FALSE, NoReply,
                                    Rejection(tier))
        /\ refused' = Refusals(refused, e, tier, c)
        /\ UNCHANGED <<now, apiKey, admitted, pending>>

\* A track request arrives while others are in flight: craftLimiter counts
\* it and hands it on; its handler runs in a later step.
TrackArrive(c, item) ==
    LET tier == RouteLimiter("track")
        e == Hit(rateStore[tier][c], tier, now)
        free == {i \in Slots : pending[i].pc = "idle"}
        slot == CHOOSE i \in free : \A j \in free : i <= j
    IN  /\ free # {}
        /\ rateStore[tier][c].count < MaxGeneralHits
        /\ rateStore' = [rateStore EXCEPT ![tier][c] = e]
        /\ IF Admits(e, tier)
           THEN /\ pending' = [pending EXCEPT ![slot] =
                                  [pc |-> "handler", client |-> c, item |-> item,
                                   read |-> 0]]
                /\ last' = last
           ELSE /\ pending' = pending
                /\ last' = Exchange("track", c, item, Undefined, FALSE, NoReply,
                                    Rejection(tier))
        /\ refused' = Refusals(refused, e, tier, c)
        /\ UNCHANGED <<discoveryTracker, now, apiKey, admitted, returned>>

\* The event loop runs the handler of the track request in slot i until it
\* gives up control or responds: the whole handler in one step where it
\* awaits nothing.
TrackResume(i) ==
    LET p == pending[i]
        out == TrackHandler(discoveryTracker, p.item)
        key == TrackKey(p.item.s)
        res == CountResponse(p.read + 1)
    IN  /\ p.pc # "idle"
        /\ IF p.pc = "handler" /\ (~TrackYields \/ out.res.status # 200)
           THEN /\ discoveryTracker' = out.map
                /\ returned' = Completed(returned, p.item, out.res)
                /\ last' = Exchange("track", p.client, p.item, Undefined, FALSE,
                                    NoReply, out.res)
                /\ pending' = [pending EXCEPT ![i] = NoRequest]
           ELSE IF p.pc = "handler"
           THEN /\ pending' = [pending EXCEPT ![i] =
                                  [p EXCEPT !.pc = "write",
                                            !.read = GetOrZero(discoveryTracker, key)]]
                /\ UNCHANGED <<discoveryTracker, returned, last>>
           ELSE /\ discoveryTracker' = MapSet(discoveryTracker, key, p.read + 1)
                /\ returned' = Completed(returned, p.item, res)
                /\ last' = Exchange("track", p.client, p.item, Undefined, FALSE,
                                    NoReply, res)
                /\ pending' = [pending EXCEPT ![i] = NoRequest]
        /\ UNCHANGED <<rateStore, now, apiKey, admitted, refused>>

\* GET /api/discovery-count/:item: craftLimiter, then the handler.
Peek(c, item) ==
    LET tier == RouteLimiter("peek")
        e == Hit(rateStore[tier][c], tier, now)
        out == PeekHandler(discoveryTracker, item)
    IN  /\ rateStore[tier][c].count < MaxGeneralHits
        /\ rateStore' = [rateStore EXCEPT ![tier][c] = e]
        /\ IF Admits(e, tier)
           THEN /\ discoveryTracker' = out.map
                /\ last' = Exchange("peek", c, String(item), Undefined, FALSE, NoReply,
                                    out.res)
           ELSE /\ discoveryTracker' = discoveryTracker
                /\ last' = Exchange("peek", c, String(item), Undefined, FALSE, NoReply,
                                    Rejection(tier))
        /\ refused' = Refusals(refused, e, tier, c)
        /\ UNCHANGED <<now, apiKey, admitted, pending, returned>>

\* Time passes.
Tick ==
    /\ now + TickMs <= MaxTime
    /\ now' = now + TickMs
    /\ UNCHANGED <<discoveryTracker, rateStore, apiKey, last, admitted, pending, returned,
                   refused>>

\* Time passes by half the window of the general limiter.
LongTickMs == GeneralWindowMs \div 2

LongTick ==
    /\ now + LongTickMs <= MaxLongTicks * LongTickMs
    /\ now' = now + LongTickMs
    /\ UNCHANGED <<discoveryTracker, rateStore, apiKey, last, admitted, pending, returned,
                   refused>>

\* POST /api/craft with body {item1, item2}: strictCraftLimiter, then the
\* handler.  reply is what the upstream service answers when the handler
\* calls it, and NoReply in a step that makes no outbound call.
MutCraftValidatesFirst(c, item1, item2, reply) ==
    LET tier == RouteLimiter("craft")
        old == rateStore[tier][c]
        e == Hit(old, tier, now)
        out == CraftHandler(item1, item2, apiKey, reply)
        before == IF e.start = old.start /\ old.active THEN admitted[c] ELSE 0
    IN  IF CraftInvalid(item1, item2) # ""
        THEN /\ reply = NoReply
             /\ last' = Exchange("craft", c, item1, item2, FALSE, reply, out.res)
             /\ UNCHANGED <<discoveryTracker, rateStore, now, apiKey, admitted, pending,
                            returned, refused>>
        ELSE
        /\ old.count < MaxHits
        /\ (reply = NoReply) <=> ~(Admits(e, tier) /\ out.fetched)
        /\ rateStore' = [rateStore EXCEPT ![tier][c] = e]
        /\ IF Admits(e, tier)
           THEN /\ last' = Exchange("craft", c, item1, item2, out.fetched, reply,
                                    out.res)
                /\ admitted' = [admitted EXCEPT ![c] = before + 1]
           ELSE /\ last' = Exchange("craft", c, item1, item2, FALSE, reply,
                                    Rejection(tier))
                /\ admitted' = [admitted EXCEPT ![c] = before]
        /\ refused' = Refusals(refused, e, tier, c)
        /\ UNCHANGED <<discoveryTracker, now, apiKey, pending, returned>>
Craft(c, item1, item2, reply) ==
    LET tier == RouteLimiter("craft")
        old == rateStore[tier][c]
        e == Hit(old, tier, now)
        out == CraftHandler(item1, item2, apiKey, reply)
        before == IF e.start = old.start /\ old.active THEN admitted[c] ELSE 0
    IN  /\ old.count < MaxHits
        /\ (reply = NoReply) <=> ~(Admits(e, tier) /\ out.fetched)
        /\ rateStore' = [rateStore EXCEPT ![tier][c] = e]
        /\ IF Admits(e, tier)
           THEN /\ last' = Exchange("craft", c, item1, item2, out.fetched, reply,
                                    out.res)
                /\ admitted' = [admitted EXCEPT ![c] = before + 1]
           ELSE /\ last' = Exchange("craft", c, item1, item2, FALSE, reply,
                                    Rejection(tier))
                /\ admitted' = [admitted EXCEPT ![c] = before]
        /\ refused' = Refusals(refused, e, tier, c)
        /\ UNCHANGED <<discoveryTracker, now, apiKey, pending, returned>>

\* The craft route alone, each client sending few requests: the handler's
\* answers over all the items and replies.
CraftNext ==
    \E c \in Clients, item1 \in CraftItems, item2 \in CraftItems,
       reply \in UpstreamReplies \cup {NoReply} :
        /\ rateStore["strict"][c].count < MaxCraftHits
        /\ Craft(c, item1, item2, reply)

SpecCraft == Init /\ [][CraftNext]_vars

\* The craft route alone, over whole windows of the strict limiter, with
\* few items and replies.
LimiterNext ==
    \/ \E c \in Clients, item1 \in LimiterItems, reply \in LimiterReplies \cup {NoReply} :
          Craft(c, item1, String(Water), reply)
    \/ Tick

SpecLimiter == Init /\ [][LimiterNext]_vars

\* The discovery routes and GET /, each client sending few requests: the
\* handlers' answers over all the items.
DiscoveryNext ==
    \/ \E c \in Clients : Health(c)
    \/ \E c \in Clients, item \in TrackItems :
          /\ rateStore["general"][c].count < MaxDiscoveryHits
          /\ Track(c, item)
    \/ \E c \in Clients, item \in PeekItems :
          /\ rateStore["general"][c].count < MaxDiscoveryHits
          /\ Peek(c, item)

SpecDiscovery == Init /\ [][DiscoveryNext]_vars

\* The number of discovery requests a client sends where whole windows of
\* the general limiter are explored: one client fills its window.
GeneralHits(c) == IF c = "c1" THEN MaxGeneralHits ELSE MaxDiscoveryHits

\* All four routes over a whole window of the general limiter, with few
\* items.
GeneralNext ==
    \/ \E c \in Clients : Health(c)
    \/ \E c \in Clients, item \in {Undefined, String(Water)} :
          /\ rateStore["general"][c].count < GeneralHits(c)
          /\ Track(c, item)
    \/ \E c \in Clients :
          /\ rateStore["general"][c].count < GeneralHits(c)
          /\ Peek(c, WaterLower)
    \/ /\ rateStore["strict"]["c1"].count < MaxCraftHits
       /\ Craft("c1", Undefined, Undefined, NoReply)

SpecGeneral == Init /\ [][GeneralNext]_vars

\* The number of craft requests a client sends where the windows of both
\* limiters are explored: one client fills both its windows.
StrictHits(c) == IF c = "c1" THEN MaxHits ELSE MaxCraftHits

\* A lookup and a craft route over whole windows of both limiters, with one
\* item each.
TiersNext ==
    \/ \E c \in Clients :
          /\ rateStore["general"][c].count < GeneralHits(c)
          /\ Peek(c, WaterLower)
    \/ \E c \in Clients :
          /\ rateStore["strict"][c].count < StrictHits(c)
          /\ Craft(c, Undefined, String(Water), NoReply)

SpecTiers == Init /\ [][TiersNext]_vars

\* One client's lookup and craft requests over several windows of both
\* limiters.
WindowsNext ==
    \/ /\ rateStore["general"]["c1"].count < MaxGeneralHits
       /\ Peek("c1", WaterLower)
    \/ /\ rateStore["strict"]["c1"].count < MaxHits
       /\ Craft("c1", Undefined, String(Water), NoReply)
    \/ LongTick

SpecWindows == Init /\ [][WindowsNext]_vars

\* Track requests in flight together, their limiter and handler steps
\* interleaved in every order.
ConcurrentNext ==
    \/ \E c \in Clients, item \in {String(Water), String(WaterUpper), String(<<>>)} :
          /\ rateStore["general"][c].count < MaxDiscoveryHits
          /\ TrackArrive(c, item)
    \/ \E i \in Slots : TrackResume(i)

SpecConcurrent == Init /\ [][ConcurrentNext]_vars

Next ==
    \/ \E c \in Clients : Health(c)
    \/ \E c \in Clients, item \in TrackItems : Track(c, item)
    \/ \E c \in Clients, item \in TrackItems : TrackArrive(c, item)
    \/ \E i \in Slots : TrackResume(i)
    \/ \E c \in Clients, item \in PeekItems : Peek(c, item)
    \/ \E c \in Clients, item1 \in CraftItems, item2 \in CraftItems,
          reply \in UpstreamReplies \cup {NoReply} : Craft(c, item1, item2, reply)
    \/ Tick
    \/ LongTick

Spec == Init /\ [][Next]_vars

-----------------------------------------------------------------------------
(* Properties of the discovery counter *)

\* Two code units that are equal or the two cases of one ASCII letter.
SameLetter(a, b) ==
    \/ a = b
    \/ a >= 65 /\ a <= 90 /\ b = a + 32
    \/ b >= 65 /\ b <= 90 /\ a = b + 32

\* Two strings equal up to letter case.
SameUpToCase(x, y) ==
    /\ Len(x) = Len(y)
    /\ \A i \in 1..Len(x) : SameLetter(x[i], y[i])

\* The lowercase form of a string.
CaseFold(s) == [i \in 1..Len(s) |-> IF s[i] >= 65 /\ s[i] <= 90 THEN s[i] + 32 ELSE s[i]]

\* The count the mapping gives a key: 0 when it holds no entry for it.
CountOf(map, key) == IF key \in DOMAIN map THEN map[key] ELSE 0

\* The step serves a request to the track, respectively the lookup, endpoint.
TrackStep == last'.route = "track" /\ rateStore' # rateStore
PeekStep == last'.route = "peek" /\ rateStore' # rateStore

\* The exchange x reached its handler.
Admitted(x) == x.res.status # 429

\* A track item the handler must refuse: missing, empty, not a string, too long.
BadTrackItem(v) ==
    \/ v.t = "undefined"
    \/ v.t # "string"
    \/ v.t = "string" /\ Len(v.s) = 0
    \/ v.t = "string" /\ Len(v.s) > 100

\* C2: a successful track(x) that returns count n, followed by peek(y) with y
\* equal to x up to letter case, makes the peek return count n.
C2_TrackThenPeek ==
    [][(/\ last.route = "track"
        /\ last.res.status = 200
        /\ PeekStep
        /\ Admitted(last')
        /\ SameUpToCase(last.arg1.s, last'.arg1.s))
       => (last'.res.status = 200 /\ last'.res.count = last.res.count)]_vars

\* C3: every count starts at 0 and never decreases; a successful track call
\* raises the count of its own lowercased key by exactly 1, returns that new
\* count, and leaves the count of every other key as it was.
C3_CountsStartAtZeroAndGrowByOne ==
    /\ \A item \in TrackItems : CountOf(discoveryTracker, CaseFold(item.s)) = 0
    /\ [][LET keys == (DOMAIN discoveryTracker) \cup (DOMAIN discoveryTracker')
                         \cup {CaseFold(last'.arg1.s)}
          IN  /\ \A k \in keys :
                    CountOf(discoveryTracker', k) >= CountOf(discoveryTracker, k)
              /\ (TrackStep /\ last'.res.status = 200) =>
                    \A k \in keys :
                        IF k = CaseFold(last'.arg1.s)
                        THEN /\ CountOf(discoveryTracker', k)
                                    = CountOf(discoveryTracker, k) + 1
                             /\ last'.res.count = CountOf(discoveryTracker', k)
                        ELSE CountOf(discoveryTracker', k)
                                    = CountOf(discoveryTracker, k)]_vars

\* A second successful track of a key, in another letter case, returned 2
\* while another key keeps its count.
C3_Witness ==
    /\ last.route = "track"
    /\ last.res.status = 200
    /\ last.arg1 = String(Water)
    /\ last.res.count = 2
    /\ discoveryTracker = [k \in {WaterLower} |-> 2]

\* The item of a lookup has never been tracked: the mapping holds no key
\* equal to it up to letter case.
NeverTracked(item) ==
    \A k \in DOMAIN discoveryTracker : ~SameUpToCase(k, item)

\* C4: a lookup of a never-tracked item of at most 100 characters answers
\* 200 with count 0, whatever the parameter holds.
C4_UnseenLookupAnswersZero ==
    (/\ last.route = "peek"
     /\ Admitted(last)
     /\ Len(last.arg1.s) <= 100
     /\ NeverTracked(last.arg1.s))
    => (last.res.status = 200 /\ last.res.count = 0)

\* C5 as stated: the key is the trimmed, lowercased item; track and lookup
\* of an item with surrounding whitespace address the counter of the trimmed
\* item, and track refuses an item that is empty once trimmed.
C5_TrimmedKey ==
    /\ (/\ last.route = "track"
        /\ Admitted(last)
        /\ last.arg1.t = "string"
        /\ Trim(last.arg1.s) = <<>>)
       => last.res.status = 400
    /\ (last.route = "track" /\ last.res.status = 200)
       => last.res.count = CountOf(discoveryTracker, CaseFold(Trim(last.arg1.s)))
    /\ (last.route = "peek" /\ last.res.status = 200)
       => last.res.count
            = CountOf(discoveryTracker,
                      CaseFold(Trim(DecodeURIComponent(last.arg1.s).val)))

\* C5 as amended: the key is the lowercased item with its whitespace kept.
\* A string item of 1 to 100 characters, blank ones included, is accepted by
\* track and counted under its lowercased form as given; the empty string is
\* refused; a lookup answers the count of the lowercased decoded parameter
\* as given.
C5_LowercaseOnlyKey ==
    /\ (/\ last.route = "track"
        /\ Admitted(last)
        /\ last.arg1.t = "string")
       => IF Len(last.arg1.s) >= 1 /\ Len(last.arg1.s) <= 100
          THEN /\ last.res.status = 200
               /\ CaseFold(last.arg1.s) \in DOMAIN discoveryTracker
               /\ last.res.count = discoveryTracker[CaseFold(last.arg1.s)]
          ELSE last.res.status = 400
    /\ (last.route = "peek" /\ last.res.status = 200)
       => /\ DecodeURIComponent(last.arg1.s).ok
          /\ last.res.count
               = CountOf(discoveryTracker,
                         CaseFold(DecodeURIComponent(last.arg1.s).val))

\* An item with a leading blank was counted apart from the item without it,
\* and a blank item was counted too.
C5_Witness ==
    /\ last.route = "track"
    /\ last.arg1 = String(WaterPadded)
    /\ last.res.status = 200
    /\ last.res.count = 1
    /\ CountOf(discoveryTracker, WaterLower) = 1
    /\ CountOf(discoveryTracker, WaterPadded) = 1

\* C6: an admitted track request whose item is missing, empty, not a string
\* or longer than 100 characters is answered 400 and leaves the mapping as
\* it was.
C6_BadTrackItemRefused ==
    [][(TrackStep /\ Admitted(last') /\ BadTrackItem(last'.arg1))
       => (last'.res.status = 400 /\ discoveryTracker' = discoveryTracker)]_vars

\* A track of a 101-character item was refused while the mapping held counts.
C6_Witness ==
    /\ last.route = "track"
    /\ last.arg1 = String(Rep("a", 101))
    /\ last.res.status = 400
    /\ DOMAIN discoveryTracker # {}

\* C7: a lookup leaves the mapping as it was, whatever it answers, and a
\* lookup repeated right after a lookup of the same item answers the same.
C7_LookupIsReadOnly ==
    [][PeekStep =>
        /\ discoveryTracker' = discoveryTracker
        /\ (last.route = "peek" /\ last.arg1 = last'.arg1
                /\ Admitted(last) /\ Admitted(last'))
           => last'.res = last.res]_vars

\* A lookup of an unseen key answered 0 while other keys are counted, and
\* created no entry.
C7_Witness ==
    /\ last.route = "peek"
    /\ last.arg1 = String(WaterPadded)
    /\ last.res.status = 200
    /\ last.res.count = 0
    /\ DOMAIN discoveryTracker = {WaterLower}

-----------------------------------------------------------------------------
(* Properties of the craft route *)

\* The exchange x was answered by the strict limiter, not by the handler.
CraftRejected(x) ==
    /\ x.res.status = 429
    /\ x.res.error = "Crafting too fast! Please wait a moment."
    /\ ~x.fetched

\* A craft item the handler must refuse: missing, empty, not a string, too long.
BadCraftItem(v) ==
    \/ v.t = "undefined"
    \/ v.t # "string"
    \/ v.t = "string" /\ Len(v.s) = 0
    \/ v.t = "string" /\ Len(v.s) > 100

\* C1: in each client's 60-second strict window the first 10 craft requests
\* reach the handler and the 11th and every later one is answered 429 with
\* the fixed body; at most 10 craft requests per client and window reach the
\* handler.
C1_TenCraftsPerWindow ==
    /\ \A c \in Clients : admitted[c] <= 10
    /\ last.route = "craft" =>
          LET nth == rateStore["strict"][last.client].count
          IN  /\ nth >= 1
              /\ nth <= 10 => (~CraftRejected(last) /\ admitted[last.client] = nth)
              /\ nth >= 11 => (CraftRejected(last) /\ admitted[last.client] = 10)

\* The 11th craft request of a client in one window was rejected after 10
\* were handled, while the other client is still served.
C1_Witness ==
    /\ last.route = "craft"
    /\ last.client = "c1"
    /\ rateStore["strict"]["c1"].count = 11
    /\ CraftRejected(last)
    /\ admitted["c1"] = 10
    /\ admitted["c2"] = 1

\* The upstream's answer counts as a failure: fetch failed, the status is
\* not a success status, or the body does not parse.
UpstreamFailed(reply) ==
    \/ reply.net = "fail"
    \/ reply.status < 200
    \/ reply.status > 299
    \/ ~reply.json

\* C8 as stated: an admitted craft request that reached the upstream and got
\* a non-success status or an unparsable body is answered 500.
C8_UpstreamFailureAnswers500 ==
    (last.route = "craft" /\ last.fetched /\ UpstreamFailed(last.upstream))
    => last.res.status = 500

\* C8 as amended: a non-success upstream response with a parsable body is
\* answered with the upstream's own status and the message 'AI service
\* error'; a failed fetch or an unparsable body is answered 500 with the
\* message 'Failed to create combination'.
C8_UpstreamStatusForwarded ==
    (last.route = "craft" /\ last.fetched /\ UpstreamFailed(last.upstream))
    => IF last.upstream.net = "ok" /\ last.upstream.json
       THEN /\ last.res.status = last.upstream.status
            /\ last.res.error = "AI service error"
       ELSE /\ last.res.status = 500
            /\ last.res.error = "Failed to create combination"

\* An upstream 401 reached the client as a 401.
C8_Witness ==
    /\ last.route = "craft"
    /\ last.fetched
    /\ last.upstream.status = 401
    /\ last.res.status = 401
    /\ last.res.error = "AI service error"

\* C9: an admitted craft request with a bad item is answered 400 and calls
\* no upstream, whether or not the credential is configured; a request
\* calls the upstream only with two good items and a credential.
C9_BadCraftItemRefused ==
    (last.route = "craft" /\ ~CraftRejected(last)) =>
        /\ (BadCraftItem(last.arg1) \/ BadCraftItem(last.arg2))
              => (last.res.status = 400 /\ ~last.fetched)
        /\ last.fetched
              => (~BadCraftItem(last.arg1) /\ ~BadCraftItem(last.arg2) /\ apiKey)

\* Without a credential, a craft request with an overlong second item was
\* answered 400 and made no outbound call.
C9_Witness ==
    /\ last.route = "craft"
    /\ ~apiKey
    /\ last.arg1 = String(Water)
    /\ last.arg2 = String(Rep("a", 101))
    /\ last.res.status = 400
    /\ ~last.fetched

\* The messages of a failed craft request.
GenericMessages ==
    {"Server configuration error", "AI service error", "Failed to create combination"}

\* The craft request of exchange x failed for a missing credential or at
\* the upstream.
CraftFailed(x) ==
    /\ x.route = "craft"
    /\ ~CraftRejected(x)
    /\ ~BadCraftItem(x.arg1) /\ ~BadCraftItem(x.arg2)
    /\ x.res.status # 200

\* C10: the body of a failed craft request is one of the fixed messages, and
\* the same request with the same upstream answer but another error payload
\* gets the same response.
C10_FailureBodyIsGeneric ==
    CraftFailed(last) =>
        /\ last.res.error \in GenericMessages
        /\ last.res.name = Undefined /\ last.res.emoji = Undefined
        /\ last.fetched =>
              \A d \in {"detail 1", "detail 2", "another detail"} :
                  CraftHandler(last.arg1, last.arg2, apiKey,
                               [last.upstream EXCEPT !.detail = d]).res = last.res

\* An upstream 500 with an error payload was answered with the generic
\* message.
C10_Witness ==
    /\ last.route = "craft"
    /\ last.fetched
    /\ last.upstream.status = 500
    /\ last.upstream.detail = "detail 2"
    /\ last.res.error = "AI service error"

\* The length of the emoji that starts at position i of the code points s:
\* an Emoji code point, its variation selector U+FE0F when one follows, and
\* every further Emoji code point that U+200D joins to it.
RECURSIVE EmojiLen(_, _)
EmojiLen(s, i) ==
    LET base == IF i + 1 <= Len(s) /\ s[i + 1] = 65039 THEN 2 ELSE 1
        j == i + base
    IN  IF j + 1 <= Len(s) /\ s[j] = 8205 /\ IsEmoji(s[j + 1])
        THEN base + 1 + EmojiLen(s, j + 1)
        ELSE base

\* The code points s are one or more emoji and nothing else.
RECURSIVE IsEmojiRun(_, _)
IsEmojiRun(s, i) ==
    /\ i <= Len(s)
    /\ IsEmoji(s[i])
    /\ (i + EmojiLen(s, i) > Len(s) \/ IsEmojiRun(s, i + EmojiLen(s, i)))

\* The upstream's reply is a fenced block around an object with a non-empty
\* name and an emoji field that is a string.
FencedResult(reply) ==
    /\ reply # NoReply
    /\ reply.net = "ok" /\ ResponseOk(reply) /\ reply.json /\ reply.choices
    /\ reply.fence \in {"plain", "json"}
    /\ reply.doc = "object"
    /\ reply.name.t = "string" /\ Len(reply.name.s) > 0
    /\ reply.emoji.t = "string"

\* C11: a craft request whose upstream reply is a fenced block around an
\* object with a non-empty name and one or more emoji is answered 200 with
\* that name and the first of the emoji, whole; an emoji field the pattern
\* matches nowhere is returned as it is.
C11_FirstEmojiReturned ==
    (last.route = "craft" /\ last.fetched /\ FencedResult(last.upstream)) =>
        LET field == last.upstream.emoji.s
        IN  /\ IsEmojiRun(field, 1) =>
                  /\ last.res.status = 200
                  /\ last.res.name = last.upstream.name
                  /\ last.res.emoji = String(SubSeq(field, 1, EmojiLen(field, 1)))
            /\ (Len(field) > 0 /\ \A i \in 1..Len(field) : ~EmojiAt(field, i)) =>
                  /\ last.res.status = 200
                  /\ last.res.emoji = last.upstream.emoji

\* The text the upstream sent as the result is no JSON.
Unparsable(reply) ==
    \/ ~reply.json
    \/ ~reply.choices
    \/ reply.doc = "garbage"
    \/ reply.fence = "unclosed"

\* A field of the parsed result that is missing or empty.
LacksField(v) == v.t = "undefined" \/ (v.t = "string" /\ Len(v.s) = 0)

\* C12: a craft request whose upstream answered with a body that does not
\* parse, or with a success status and a result that does not parse or
\* lacks a non-empty name or a non-empty emoji, is answered 500 'Failed to
\* create combination'; every craft response with status 200 carries a name
\* and a non-empty emoji.
C12_NoIncompleteResult ==
    last.route = "craft" =>
        /\ (/\ last.fetched
            /\ last.upstream.net = "ok"
            /\ \/ ~last.upstream.json
               \/ /\ ResponseOk(last.upstream)
                  /\ \/ Unparsable(last.upstream)
                     \/ last.upstream.doc # "object"
                     \/ LacksField(last.upstream.name)
                     \/ LacksField(last.upstream.emoji))
           => (/\ last.res.status = 500
               /\ last.res.error = "Failed to create combination"
               /\ last.res.name = Undefined /\ last.res.emoji = Undefined)
        /\ last.res.status = 200 =>
              /\ last.fetched
              /\ ~LacksField(last.res.name)
              /\ last.res.emoji.t = "string"
              /\ Len(last.res.emoji.s) > 0

\* A result with a name and an empty emoji was answered 500.
C12_Witness ==
    /\ last.route = "craft"
    /\ last.fetched
    /\ last.upstream = ContentReply("none", "object", Steam, String(<<>>))
    /\ last.res.status = 500
    /\ last.res.error = "Failed to create combination"

-----------------------------------------------------------------------------
(* Properties of the limiter tiers *)

\* The step serves a request to GET /, and one to the craft route.
HealthStep == last'.route = "health" /\ last' # last
CraftStep == last'.route = "craft" /\ rateStore' # rateStore

\* The response of exchange x is the general limiter's rejection.
GeneralRejected(x) ==
    /\ x.res.status = 429
    /\ x.res.error = "Too many requests, please try again later."

\* C13 as stated: every request to GET /, to the track route and to the
\* lookup route is counted in the client's general window, and the 101st
\* and later ones are answered 429.
C13_EveryEndpointLimited ==
    [][(HealthStep \/ TrackStep \/ PeekStep) =>
          LET c == last'.client
              nth == rateStore'["general"][c].count
          IN  /\ nth = rateStore["general"][c].count + 1
              /\ nth >= 101 => GeneralRejected(last')]_vars

\* C13 as amended: every request to the track and lookup routes is counted
\* in the client's general window and in no other, the first 100 of a
\* window are handed to the handler and the 101st and later ones are
\* answered 429; a request to GET / is counted nowhere and always answered
\* 200; a craft request is counted in the client's strict window only.
C13_DiscoveryOnGeneralTier ==
    [][/\ (TrackStep \/ PeekStep) =>
            LET c == last'.client
                nth == rateStore'["general"][c].count
            IN  /\ nth = rateStore["general"][c].count + 1
                /\ rateStore' = [rateStore EXCEPT !["general"][c] = rateStore'["general"][c]]
                /\ nth <= 100 => ~GeneralRejected(last')
                /\ nth >= 101 => GeneralRejected(last')
       /\ HealthStep => (rateStore' = rateStore /\ last'.res.status = 200)
       /\ CraftStep =>
            LET c == last'.client
            IN  /\ rateStore'["strict"][c].count = rateStore["strict"][c].count + 1
                /\ rateStore'["general"] = rateStore["general"]]_vars

\* The 101st discovery request of a client, a track, was answered 429 after
\* a track of the same item had been counted.
C13_Witness ==
    /\ last.route = "track"
    /\ last.client = "c1"
    /\ last.arg1 = String(Water)
    /\ rateStore["general"]["c1"].count = 101
    /\ GeneralRejected(last)
    /\ GetOrZero(discoveryTracker, WaterLower) = 1

\* The tier that guards the route of exchange x, as the routes are described.
TierOf(x) == IF x.route = "craft" THEN "strict" ELSE "general"

\* C14: a request changes the limiter entry of its own client and of its
\* route's tier and no other entry, and whether it is rejected depends on
\* that entry alone: a craft request is rejected exactly when the client
\* has 10 or more craft requests counted, a lookup exactly when the client
\* has 100 or more discovery requests counted, whatever the other client's
\* entries and the same client's entry on the other tier hold.
C14_TiersAndClientsIndependent ==
    [][/\ \A c \in Clients, tier \in {"general", "strict"} :
            rateStore'[tier][c] # rateStore[tier][c]
            => (last'.client = c /\ TierOf(last') = tier)
       /\ CraftStep =>
            (CraftRejected(last') <=> rateStore["strict"][last'.client].count >= 10)
       /\ PeekStep =>
            (GeneralRejected(last') <=> rateStore["general"][last'.client].count >= 100)]_vars

\* With both windows of client c1 exhausted, a craft request of client c2
\* was handed to the handler.
C14_Witness ==
    /\ rateStore["strict"]["c1"].count = 11
    /\ rateStore["general"]["c1"].count = 101
    /\ last.route = "craft"
    /\ last.client = "c2"
    /\ last.res.status = 400
    /\ rateStore["general"]["c2"].count = 1

\* The response of exchange x is its tier's rejection.
Rejected(x) == IF x.route = "craft" THEN CraftRejected(x) ELSE GeneralRejected(x)

\* C16: a request that arrives when the window of its client and tier has
\* run its length (15 minutes on the general tier, 1 minute on the strict
\* one) starts a new window, is counted as its first request and is handed
\* to the handler, whatever the count of the old window was; a request that
\* arrives within the window adds one to its count and is rejected exactly
\* when the count then exceeds the maximum (100, 10).
C16_WindowResets ==
    [][(CraftStep \/ PeekStep) =>
          LET c == last'.client
              tier == TierOf(last')
              old == rateStore[tier][c]
              new == rateStore'[tier][c]
              length == IF tier = "general" THEN 900000 ELSE 60000
              most == IF tier = "general" THEN 100 ELSE 10
          IN  IF ~old.active \/ now - old.start >= length
              THEN /\ new.count = 1
                   /\ new.start = now
                   /\ ~Rejected(last')
              ELSE /\ new.count = old.count + 1
                   /\ new.start = old.start
                   /\ Rejected(last') <=> new.count > most]_vars

\* A client that was rejected on both tiers is served a lookup as the first
\* request of a new general window, 15 minutes after the old one started.
C16_Witness ==
    /\ refused["general"]["c1"]
    /\ refused["strict"]["c1"]
    /\ now = 900000
    /\ last.route = "peek"
    /\ last.client = "c1"
    /\ last.res.status = 200
    /\ rateStore["general"]["c1"] = [active |-> TRUE, start |-> 900000, count |-> 1]

\* The step serves a craft request, whether a limiter counted it or not.
CraftServed == last'.route = "craft" /\ (last' # last \/ rateStore' # rateStore)

\* C17: every craft request is counted in its client's strict window,
\* whatever its items, the credential and the upstream's reply; a craft
\* request that arrives when 10 or more are counted in the running window
\* is answered 429 by the strict limiter, with good and with bad items, and
\* calls no upstream.
C17_LimiterRunsFirst ==
    [][CraftServed =>
          LET c == last'.client
              old == rateStore["strict"][c]
              new == rateStore'["strict"][c]
              running == old.active /\ now - old.start < 60000
          IN  /\ new.count = IF running THEN old.count + 1 ELSE 1
              /\ (running /\ old.count >= 10) =>
                    /\ CraftRejected(last')
                    /\ last'.res.status # 400
                    /\ ~last'.fetched
                    /\ last'.upstream = NoReply
              /\ last'.fetched => (~running \/ old.count < 10)]_vars

\* The 11th craft request of a window, with an overlong item, was answered
\* 429 while the credential is configured.
C17_Witness ==
    /\ last.route = "craft"
    /\ last.client = "c1"
    /\ last.arg1 = String(Rep("a", 101))
    /\ apiKey
    /\ rateStore["strict"]["c1"].count = 11
    /\ admitted["c1"] = 10
    /\ last.res.status = 429
    /\ CraftRejected(last)

-----------------------------------------------------------------------------
(* Properties of concurrent track requests *)

\* C15: in every interleaving of track requests in flight no update is
\* lost: for every key, when N requests on it have completed successfully
\* the stored count is N and the counts they returned are 1, 2, ..., N, each
\* once.
C15_NoLostUpdate ==
    /\ DOMAIN returned = DOMAIN discoveryTracker
    /\ \A k \in DOMAIN returned :
          returned[k] = [n \in 1..discoveryTracker[k] |-> n]

\* Three track requests on one key were in flight together; two have
\* completed with the counts 1 and 2 and the third has not run yet.
C15_Witness ==
    /\ WaterLower \in DOMAIN returned
    /\ returned[WaterLower] = <<1, 2>>
    /\ pending[3].pc = "handler"
    /\ pending[3].item = String(WaterUpper)
    /\ pending[1].pc = "idle" /\ pending[2].pc = "idle"

=============================================================================
